---- MODULE Spec2Model ----
(***************************************************************************)
(* Model of the ingestion pipeline of the RAG_Pipeline package:            *)
(*   - the indexer (common/db_handler.py, common/async_db_handler.py):     *)
(*     delete-before-insert ingestion of one document into the store,      *)
(*     with the async_retry wrapper around the chunk batch insert;         *)
(*   - the watchers (Google_Drive/drive_watcher.py,                        *)
(*     Local_Files/file_watcher.py): poll, detect deletions, process.      *)
(* Every remote call (store, embedding service, config file) may fail;     *)
(* a failure is an exception in the code and is routed here exactly as     *)
(* the code's try/except blocks route it.                                  *)
(***************************************************************************)
EXTENDS Integers, Sequences, FiniteSets, TLC

VARIABLES
    \* ---- indexer ----
    store,        \* the backing store: chunk batches, rows, metadata records
    variant,      \* "sync" (db_handler.py) or "async" (async_db_handler.py)
    pc,           \* position inside process_file_for_rag[_async]
    run,          \* number of the current process() invocation (0: none yet)
    doc,          \* the document handed to the current invocation
    found,        \* metadata upsert: did the select find a record
    rowpos,       \* insert_document_rows: rows inserted so far by this call
    rows_inserted,\* local rows_inserted of process_file_for_rag_async
    emb_n,        \* len(embeddings) returned by create_embeddings
    batchpos,     \* insert_document_chunks[_batch]: start index of next batch
    attempt,      \* async_retry: loop variable attempt
    calls,        \* async_retry: invocations of the wrapped function so far
    waits,        \* async_retry: the asyncio.sleep durations so far
    retry_out,    \* async_retry: "none", "returned" or "raised"
    result,       \* the value process() returned
    raised,       \* TRUE when an exception escaped process() to its caller
    oplog,        \* remote calls of the current invocation, in issue order
    hist,         \* one summary per finished invocation
    faults,       \* remote-call failures injected so far
    \* ---- watcher ----
    mode,             \* "drive_folder", "drive_all" or "local"
    files,            \* the source: state and time stamp of every file
    clock,            \* the current time
    last_check_time,  \* self.last_check_time
    config_lct,       \* 'last_check_time' string in the config file
    known_files,      \* keys of self.known_files
    initialized,      \* self.initialized
    wpc,              \* position inside watch_for_changes
    changed_files,    \* items of this cycle's poll not yet processed
    deleted_file_ids, \* ids of this cycle's deletions not yet handled
    stop_cause,       \* why watch_for_changes ended
    wraised,          \* TRUE when watch_for_changes raised to its caller
    cycle,            \* number of poll cycles started
    proc_calls,       \* ids handed to process_file in this cycle
    del_calls,        \* ids handed to delete_document_by_file_id, this cycle
    events,           \* source events so far
    restarts,         \* restarts of the watcher process so far
    det_errs,         \* ids whose existence check raised another error
    reported,         \* ids check_for_deleted_files returned in this cycle
    removed,          \* ids removed from the index and not seen again since
    failed            \* ids whose ingestion failed since the last poll

ivars == <<store, variant, pc, run, doc, found, rowpos, rows_inserted, emb_n,
           batchpos, attempt, calls, waits, retry_out, result, raised, oplog,
           hist, faults>>

locals == <<found, rowpos, rows_inserted, emb_n, batchpos>>
retry == <<attempt, calls, waits, retry_out>>

wvars == <<mode, files, clock, last_check_time, config_lct, known_files,
           initialized, wpc, changed_files, deleted_file_ids, stop_cause,
           wraised, cycle, proc_calls, del_calls, events, restarts,
           det_errs, reported, removed, failed>>

wghost == <<restarts, det_errs, reported, removed, failed>>

\* The text functions: one call of a function on one input.
VARIABLES
    top,              \* the function applied to the input ("none" before)
    text,             \* chunk_text: the text, a sequence of characters
    chunk_size,       \* chunk_text: argument chunk_size
    overlap,          \* chunk_text: argument overlap
    chunks,           \* chunk_text: [raised, chunks]
    data,             \* insert_document_chunks_batch: the prepared records
    body,             \* markdown body text, a sequence of lines
    max_chunk_size,   \* create_section_aware_chunks: argument max_chunk_size
    frontmatter,      \* create_section_aware_chunks: a frontmatter is given
    sections,         \* extract_sections: the returned Sections
    enriched_chunks,  \* create_section_aware_chunks: [raised, chunks]
    split_section,    \* split_section_at_paragraphs: the Section
    split_chunks,     \* split_section_at_paragraphs: the returned chunks
    file_content,     \* parse_case_study: the file text, a sequence of lines
    parsed            \* parse_case_study: [raised, frontmatter, body]

cvars == <<text, chunk_size, overlap, chunks, data>>

svars == <<body, max_chunk_size, frontmatter, sections, enriched_chunks,
           split_section, split_chunks>>

pvars == <<file_content, parsed>>

tvars == <<top, cvars, svars, pvars>>

vars == <<ivars, wvars, tvars>>

----------------------------------------------------------------------------
\* Bounds of the model

MaxRuns == 2
MaxFaults == 3
MaxChunks == 150
MaxRows == 2

\* Program constants

BATCH_SIZE == 100
MAX_ATTEMPTS == 3
BACKOFF_FACTOR == 2

FileIds == {"f1"}
Variants == {"sync", "async"}

\* The documents handed to process(): the file id, the kind of media type,
\* the number of chunks the chunker yields for its text and the number of
\* data rows (CSV rows of a tabular file, key_metrics of a markdown file).
Docs ==
    { [fid |-> f, kind |-> "text", nchunks |-> n, nrows |-> 0] :
          f \in FileIds, n \in {0, 1, MaxChunks} }
    \cup
    { [fid |-> f, kind |-> "tabular", nchunks |-> n, nrows |-> MaxRows] :
          f \in FileIds, n \in {1, MaxChunks} }
    \cup
    { [fid |-> f, kind |-> "markdown", nchunks |-> 1, nrows |-> r] :
          f \in FileIds, r \in {0, MaxRows} }
    \cup
    { [fid |-> f, kind |-> "image", nchunks |-> 1, nrows |-> 0] : f \in FileIds }

NoDoc == [fid |-> "none", kind |-> "none", nchunks |-> 0, nrows |-> 0]

NoResult ==
    [returned |-> FALSE, success |-> FALSE, chunks_inserted |-> 0,
     rows_inserted |-> 0, error_message |-> "none"]

EmptyStore ==
    [chunks |-> <<>>, rows |-> <<>>, meta |-> [f \in FileIds |-> 0]]

----------------------------------------------------------------------------
\* Helpers on sequences and on the store

RECURSIVE SumLen(_)
SumLen(s) ==
    IF s = <<>> THEN 0 ELSE (Head(s).hi - Head(s).lo + 1) + SumLen(Tail(s))

Min(a, b) == IF a < b THEN a ELSE b

\* A linear backoff in place of the exponential one.
PowLinear(b, e) == b * (e + 1)

RECURSIVE Pow(_, _)
Pow(b, e) == IF e = 0 THEN 1 ELSE b * Pow(b, e - 1)

ChunkBatchesOf(st, f) == SelectSeq(st.chunks, LAMBDA b : b.fid = f)
RowsOfFid(st, f) == SelectSeq(st.rows, LAMBDA r : r.fid = f)
ChunkCount(st, f) == SumLen(ChunkBatchesOf(st, f))
RowCount(st, f) == Len(RowsOfFid(st, f))

----------------------------------------------------------------------------
\* The indexer: process_file_for_rag (sync) and process_file_for_rag_async

\* Outcomes a remote call can have: it succeeds, or (while the fault budget
\* lasts) it raises.
Oks == IF faults < MaxFaults THEN {TRUE, FALSE} ELSE {TRUE}

Fault(ok) == faults' = IF ok THEN faults ELSE faults + 1

Log(step, op, ok) ==
    oplog' = Append(oplog, [step |-> step, op |-> op, ok |-> ok])

\* Rows the indexer writes for a document: the sync variant writes the
\* key_metrics of a markdown document and has no tabular branch, the async
\* variant writes the CSV rows of a tabular document.
NRows(d, v) ==
    IF v = "sync"
    THEN (IF d.kind = "markdown" THEN d.nrows ELSE 0)
    ELSE (IF d.kind = "tabular" THEN d.nrows ELSE 0)

\* The value returned when the chunker produced no chunk.
NoChunksResult(v, rows) ==
    IF v = "sync"
    THEN [returned |-> TRUE, success |-> FALSE, chunks_inserted |-> 0,
          rows_inserted |-> 0, error_message |-> "none"]
    ELSE [returned |-> TRUE, success |-> FALSE, chunks_inserted |-> 0,
          rows_inserted |-> rows,
          error_message |-> "No chunks created from text"]

\* The value returned by the except block of process().
ExceptResult(v) ==
    IF v = "sync"
    THEN [returned |-> TRUE, success |-> FALSE, chunks_inserted |-> 0,
          rows_inserted |-> 0, error_message |-> "none"]
    ELSE [returned |-> TRUE, success |-> FALSE, chunks_inserted |-> 0,
          rows_inserted |-> 0, error_message |-> "exception"]

\* The value returned at the end of the normal path.
SuccessResult(v, n, rows) ==
    IF v = "sync"
    THEN [returned |-> TRUE, success |-> TRUE, chunks_inserted |-> 0,
          rows_inserted |-> 0, error_message |-> "none"]
    ELSE [returned |-> TRUE, success |-> TRUE, chunks_inserted |-> n,
          rows_inserted |-> rows, error_message |-> "none"]

\* process() returns res; st is the store at that moment.
Return(res, st) ==
    /\ result' = res
    /\ raised' = FALSE
    /\ pc' = "done"
    /\ hist' = Append(hist, [doc |-> doc, success |-> res.success,
                             chunks |-> ChunkCount(st, doc.fid),
                             rows |-> RowCount(st, doc.fid)])

\* No except block: the exception leaves process().
ProcessExceptReraise(st) ==
    /\ raised' = TRUE
    /\ pc' = "done"
    /\ UNCHANGED <<result, hist>>

\* The except block that encloses the body of process(): every exception
\* is caught and turned into the failed result.
ProcessExcept(st) == Return(ExceptResult(variant), st)

\* Where process() continues after the metadata upsert.
AfterMeta == IF NRows(doc, variant) > 0 THEN "rows_delete" ELSE "chunk"

\* process() without its delete step.
StartSkipDelete(d) ==
    /\ pc \in {"idle", "done"}
    /\ run < MaxRuns
    /\ run' = run + 1
    /\ doc' = d
    /\ pc' = "meta_select"
    /\ found' = FALSE
    /\ rowpos' = 0
    /\ rows_inserted' = 0
    /\ emb_n' = 0
    /\ batchpos' = 0
    /\ attempt' = 0
    /\ calls' = 0
    /\ waits' = <<>>
    /\ retry_out' = "none"
    /\ result' = NoResult
    /\ raised' = FALSE
    /\ oplog' = <<>>
    /\ UNCHANGED <<store, variant, hist, faults>>
    /\ UNCHANGED <<wvars, tvars>>

Start(d) ==
    /\ pc \in {"idle", "done"}
    /\ run < MaxRuns
    /\ run' = run + 1
    /\ doc' = d
    /\ pc' = "del_chunks"
    /\ found' = FALSE
    /\ rowpos' = 0
    /\ rows_inserted' = 0
    /\ emb_n' = 0
    /\ batchpos' = 0
    /\ attempt' = 0
    /\ calls' = 0
    /\ waits' = <<>>
    /\ retry_out' = "none"
    /\ result' = NoResult
    /\ raised' = FALSE
    /\ oplog' = <<>>
    /\ UNCHANGED <<store, variant, hist, faults>>
    /\ UNCHANGED <<wvars, tvars>>

\* delete_document_by_file_id: the chunk delete; its failure is caught by
\* the outer except, which skips the row and the metadata delete.
DeleteChunks ==
    /\ pc = "del_chunks"
    /\ \E ok \in Oks :
         /\ Fault(ok)
         /\ Log("delete", "delete_chunks", ok)
         /\ IF ok
            THEN /\ store' = [store EXCEPT
                       !.chunks = SelectSeq(@, LAMBDA b : b.fid # doc.fid)]
                 /\ pc' = "del_rows"
            ELSE /\ store' = store
                 /\ pc' = "meta_select"
    /\ UNCHANGED <<variant, run, doc, locals, retry, result, raised, hist>>
    /\ UNCHANGED <<wvars, tvars>>

DeleteRows ==
    /\ pc = "del_rows"
    /\ \E ok \in Oks :
         /\ Fault(ok)
         /\ Log("delete", "delete_rows", ok)
         /\ store' = IF ok
                     THEN [store EXCEPT
                            !.rows = SelectSeq(@, LAMBDA r : r.fid # doc.fid)]
                     ELSE store
    /\ pc' = "del_meta"
    /\ UNCHANGED <<variant, run, doc, locals, retry, result, raised, hist>>
    /\ UNCHANGED <<wvars, tvars>>

DeleteMeta ==
    /\ pc = "del_meta"
    /\ \E ok \in Oks :
         /\ Fault(ok)
         /\ Log("delete", "delete_metadata", ok)
         /\ store' = IF ok THEN [store EXCEPT !.meta[doc.fid] = 0] ELSE store
    /\ pc' = "meta_select"
    /\ UNCHANGED <<variant, run, doc, locals, retry, result, raised, hist>>
    /\ UNCHANGED <<wvars, tvars>>

\* insert_or_update_document_metadata: the existence check.
MetaSelect ==
    /\ pc = "meta_select"
    /\ \E ok \in Oks :
         /\ Fault(ok)
         /\ Log("metadata", "select_metadata", ok)
         /\ IF ok
            THEN /\ found' = (store.meta[doc.fid] # 0)
                 /\ pc' = "meta_write"
            ELSE /\ found' = found
                 /\ pc' = AfterMeta
    /\ UNCHANGED <<store, variant, run, doc, rowpos, rows_inserted, emb_n,
                   batchpos, retry, result, raised, hist>>
    /\ UNCHANGED <<wvars, tvars>>

\* insert_or_update_document_metadata: update of the record found, or insert.
MetaWrite ==
    /\ pc = "meta_write"
    /\ \E ok \in Oks :
         /\ Fault(ok)
         /\ Log("metadata",
                IF found THEN "update_metadata" ELSE "insert_metadata", ok)
         /\ store' = IF ok THEN [store EXCEPT !.meta[doc.fid] = run]
                     ELSE store
    /\ pc' = AfterMeta
    /\ UNCHANGED <<variant, run, doc, locals, retry, result, raised, hist>>
    /\ UNCHANGED <<wvars, tvars>>

\* insert_document_rows: the delete of the rows of the file.
RowsDelete ==
    /\ pc = "rows_delete"
    /\ \E ok \in Oks :
         /\ Fault(ok)
         /\ Log("rows", "delete_existing_rows", ok)
         /\ IF ok
            THEN /\ store' = [store EXCEPT
                       !.rows = SelectSeq(@, LAMBDA r : r.fid # doc.fid)]
                 /\ pc' = "row_insert"
            ELSE /\ store' = store
                 /\ pc' = "chunk"
    /\ rowpos' = 0
    /\ rows_inserted' = 0
    /\ UNCHANGED <<variant, run, doc, found, emb_n, batchpos, retry, result,
                   raised, hist>>
    /\ UNCHANGED <<wvars, tvars>>

\* insert_document_rows: one insert per row; a failure ends the loop.
RowInsert ==
    /\ pc = "row_insert"
    /\ \E ok \in Oks :
         /\ Fault(ok)
         /\ Log("rows", "insert_row", ok)
         /\ IF ok
            THEN /\ store' = [store EXCEPT !.rows = Append(@,
                       [fid |-> doc.fid, row |-> rowpos + 1, run |-> run])]
                 /\ rowpos' = rowpos + 1
                 /\ IF rowpos + 1 = NRows(doc, variant)
                    THEN /\ pc' = "chunk"
                         /\ rows_inserted' =
                               IF variant = "async" THEN rowpos + 1 ELSE 0
                    ELSE /\ pc' = pc
                         /\ rows_inserted' = rows_inserted
            ELSE /\ store' = store
                 /\ rowpos' = rowpos
                 /\ rows_inserted' = 0
                 /\ pc' = "chunk"
    /\ UNCHANGED <<variant, run, doc, found, emb_n, batchpos, retry, result,
                   raised, hist>>
    /\ UNCHANGED <<wvars, tvars>>

\* The chunker returned no chunk: process() returns a failure.
NoChunks ==
    /\ pc = "chunk"
    /\ doc.nchunks = 0
    /\ Return(NoChunksResult(variant, rows_inserted), store)
    /\ UNCHANGED <<store, variant, run, doc, locals, retry, oplog, faults>>
    /\ UNCHANGED <<wvars, tvars>>

\* create_embeddings: one request for all chunks. The request raises, or it
\* answers with one vector per chunk, or with one vector too few.
Embed ==
    /\ pc = "chunk"
    /\ doc.nchunks > 0
    /\ \E out \in {"ok"} \cup
                   (IF faults < MaxFaults THEN {"short", "raise"} ELSE {}) :
         /\ Fault(out = "ok")
         /\ Log("chunks", "create_embeddings", out # "raise")
         /\ IF out = "raise"
            THEN /\ ProcessExcept(store)
                 /\ emb_n' = emb_n
            ELSE /\ emb_n' = IF out = "ok" THEN doc.nchunks
                             ELSE doc.nchunks - 1
                 /\ pc' = "chunks_call"
                 /\ UNCHANGED <<result, raised, hist>>
    /\ UNCHANGED <<store, variant, run, doc, found, rowpos, rows_inserted,
                   batchpos, retry>>
    /\ UNCHANGED <<wvars, tvars>>

\* An exception inside insert_document_chunks / insert_document_chunks_batch.
\* sync: caught and printed by insert_document_chunks, process() goes on to
\* its final return True.  async: async_retry sleeps backoff_factor **
\* attempt and calls again, or re-raises on the last attempt, and then the
\* except block of process_file_for_rag_async returns the failed result.
ChunksRaise(st) ==
    IF variant = "sync"
    THEN /\ Return(SuccessResult(variant, doc.nchunks, rows_inserted), st)
         /\ UNCHANGED <<attempt, waits, retry_out>>
    ELSE IF attempt = MAX_ATTEMPTS - 1
         THEN /\ retry_out' = "raised"
              /\ ProcessExcept(st)
              /\ UNCHANGED <<attempt, waits>>
         ELSE /\ waits' = Append(waits, Pow(BACKOFF_FACTOR, attempt))
              /\ attempt' = attempt + 1
              /\ pc' = "chunks_call"
              /\ UNCHANGED <<retry_out, result, raised, hist>>

\* Entry of insert_document_chunks / insert_document_chunks_batch: the
\* length check of chunks against embeddings.
ChunksCall ==
    /\ pc = "chunks_call"
    /\ calls' = calls + 1
    /\ batchpos' = 0
    /\ IF doc.nchunks # emb_n
       THEN ChunksRaise(store)
       ELSE /\ pc' = "insert_batch"
            /\ UNCHANGED <<attempt, waits, retry_out, result, raised, hist>>
    /\ UNCHANGED <<store, variant, run, doc, found, rowpos, rows_inserted,
                   emb_n, oplog, faults>>
    /\ UNCHANGED <<wvars, tvars>>

\* The request carries all the records that are left.
BatchEndAll(pos, n) == n

\* batch = data[i:i + BATCH_SIZE]: the index after the last record of the
\* batch that starts at pos, of n records.
BatchEnd(pos, n) == Min(pos + BATCH_SIZE, n)

\* One insert request carrying data[batchpos : batchpos + BATCH_SIZE].
InsertBatch ==
    /\ pc = "insert_batch"
    /\ \E ok \in Oks :
         /\ Fault(ok)
         /\ Log("chunks", "insert_chunks", ok)
         /\ IF ok
            THEN /\ store' = [store EXCEPT !.chunks = Append(@,
                       [fid |-> doc.fid, lo |-> batchpos,
                        hi |-> BatchEnd(batchpos, doc.nchunks) - 1,
                        run |-> run])]
                 /\ batchpos' = batchpos + BATCH_SIZE
                 /\ IF batchpos + BATCH_SIZE >= doc.nchunks
                    THEN /\ retry_out' = "returned"
                         /\ Return(SuccessResult(variant, doc.nchunks,
                                                 rows_inserted), store')
                         /\ UNCHANGED <<attempt, waits>>
                    ELSE UNCHANGED <<pc, attempt, waits, retry_out, result,
                                     raised, hist>>
            ELSE /\ store' = store
                 /\ batchpos' = batchpos
                 /\ ChunksRaise(store)
    /\ UNCHANGED <<variant, run, doc, found, rowpos, rows_inserted, emb_n,
                   calls>>
    /\ UNCHANGED <<wvars, tvars>>

IndexerInit ==
    /\ store = EmptyStore
    /\ variant \in Variants
    /\ pc = "idle"
    /\ run = 0
    /\ doc = NoDoc
    /\ found = FALSE
    /\ rowpos = 0
    /\ rows_inserted = 0
    /\ emb_n = 0
    /\ batchpos = 0
    /\ attempt = 0
    /\ calls = 0
    /\ waits = <<>>
    /\ retry_out = "none"
    /\ result = NoResult
    /\ raised = FALSE
    /\ oplog = <<>>
    /\ hist = <<>>
    /\ faults = 0

----------------------------------------------------------------------------
\* The watchers: GoogleDriveWatcher and LocalFileWatcher

\* Bounds of the watcher model
MaxClock == 3
MaxCycles == 2
MaxEvents == 3
MaxRestarts == 1
MaxLen == 4
MaxLines == 6

\* Resolution of the %f field of the time format: microseconds per second.
MICROS == 1000000

\* Time that passes in one tick of the clock, in microseconds.
ClockStep == 600000

FileIdsW == {"a", "b"}
Modes == {"drive_folder", "drive_all", "local"}

\* strftime('%Y-%m-%dT%H:%M:%S.%fZ') of a time given in microseconds since
\* the epoch, and strptime of such a string.
Strftime(t) == [sec |-> t \div MICROS, micro |-> t % MICROS]
Strptime(str) == str.sec * MICROS + str.micro

\* The default '1970-01-01T00:00:00.000Z' of load_config.
EpochStr == [sec |-> 0, micro |-> 0]

IsDrive == mode # "local"

\* What a listing of the source with the time filter returns.
\* drive: modifiedTime > time_str or createdTime > time_str (trashed files
\* are listed, with trashed = true).  local: every file on disk that is not
\* in known_files or whose mtime or ctime is after last_check_time.
ChangedIds ==
    IF IsDrive
    THEN {f \in FileIdsW : files[f].st # "absent"
                           /\ files[f].stamp > last_check_time}
    ELSE {f \in FileIdsW : files[f].st = "present"
                           /\ (f \notin known_files
                               \/ files[f].stamp > last_check_time)}

FileInfo(f) == [id |-> f, trashed |-> (files[f].st = "trashed")]

\* save_last_check_time: rewrites the config file; an error is printed only.
SaveLastCheckTime(ok, t) ==
    config_lct' = IF ok THEN Strftime(t) ELSE config_lct

\* The except clause of watch_for_changes: the drive watcher prints and
\* re-raises, the local watcher prints and returns.
Stop(cause) ==
    /\ wpc' = "stopped"
    /\ stop_cause' = cause
    /\ wraised' = IsDrive

\* watch_for_changes up to its loop: the initial scan.
InitialScan ==
    /\ wpc = "start"
    /\ ~initialized
    /\ initialized' = TRUE
    /\ wpc' = "poll"
    /\ IF IsDrive
       THEN /\ known_files' =
                 {f \in FileIdsW :
                     /\ files[f].st = "present"
                     /\ (mode = "drive_folder" =>
                            files[f].stamp > last_check_time)}
            /\ UNCHANGED <<last_check_time, config_lct>>
       ELSE /\ known_files' = known_files \cup ChangedIds
            /\ last_check_time' = clock
            /\ \E ok \in BOOLEAN : SaveLastCheckTime(ok, clock)
    /\ UNCHANGED <<mode, files, clock, changed_files, deleted_file_ids,
                   stop_cause, wraised, cycle, proc_calls, del_calls, events>>
    /\ UNCHANGED wghost
    /\ UNCHANGED <<ivars, tvars>>

\* get_changes of one loop cycle.
GetChanges ==
    /\ wpc = "poll"
    /\ cycle < MaxCycles
    /\ cycle' = cycle + 1
    /\ changed_files' = {FileInfo(f) : f \in ChangedIds}
    /\ last_check_time' = clock
    /\ \E ok \in BOOLEAN : SaveLastCheckTime(ok, clock)
    /\ wpc' = "detect"
    /\ proc_calls' = {}
    /\ del_calls' = {}
    /\ reported' = {}
    /\ det_errs' = {}
    /\ failed' = {}
    /\ UNCHANGED <<mode, files, clock, known_files, initialized,
                   deleted_file_ids, stop_cause, wraised, events, restarts,
                   removed>>
    /\ UNCHANGED <<ivars, tvars>>

\* The source raises during the initial scan or during get_changes (API
\* error, os.stat error): the exception reaches the except clause of
\* watch_for_changes.
PollError ==
    /\ wpc \in {"start", "poll"}
    /\ cycle < MaxCycles
    /\ Stop("source_error")
    /\ UNCHANGED <<mode, files, clock, last_check_time, config_lct,
                   known_files, initialized, changed_files, deleted_file_ids,
                   cycle, proc_calls, del_calls, events>>
    /\ UNCHANGED wghost
    /\ UNCHANGED <<ivars, tvars>>

\* The answer of the source to the existence check of one known id.
\* drive: files().get returns the trashed flag, raises not-found (404), or
\* raises another error (the ids in errs).  local: os.path.exists.
ExistenceAnswer(f, errs) ==
    IF f \in errs THEN "error"
    ELSE IF files[f].st = "absent" THEN "not_found"
    ELSE IF files[f].st = "trashed" THEN "trashed"
    ELSE "exists"

\* Every failed existence check counts as a deletion.
IsDeletedAnswerAnyError(answer) ==
    answer \in {"trashed", "not_found", "error"}

\* check_for_deleted_files: the answers on which an id is appended to
\* deleted_files.
IsDeletedAnswer(answer) == answer \in {"trashed", "not_found"}

\* check_for_deleted_files.  drive: one files().get per known id; trashed or
\* a not-found error reports the id, any other error (errs) is printed and
\* the id is not reported.  local: os.path.exists per known path.
CheckForDeletedFiles ==
    /\ wpc = "detect"
    /\ \E errs \in (IF IsDrive THEN SUBSET known_files ELSE {{}}) :
         /\ deleted_file_ids' =
               {f \in known_files : IsDeletedAnswer(ExistenceAnswer(f, errs))}
         /\ det_errs' = errs
    /\ reported' = deleted_file_ids'
    /\ wpc' = "process"
    /\ UNCHANGED <<mode, files, clock, last_check_time, config_lct,
                   known_files, initialized, changed_files, stop_cause,
                   wraised, cycle, proc_calls, del_calls, events, restarts,
                   removed, failed>>
    /\ UNCHANGED <<ivars, tvars>>

\* What process_file can run into for an item that is not trashed.
Outcomes ==
    {"unsupported", "download_failed", "no_text", "extract_raises",
     "rag_true", "rag_false"}

\* The outcomes possible for file f: a file that is gone from the source
\* cannot be downloaded or read.
OutcomesFor(f) ==
    IF files[f].st = "absent"
    THEN {"unsupported", "download_failed"}
    ELSE Outcomes

\* known_files after process_file(file) returned with outcome out.
ProcessFileKnown(file, out) ==
    IF IsDrive /\ file.trashed
    THEN known_files \ {file.id}
    ELSE IF out \in {"rag_true", "rag_false"}
         THEN known_files \cup {file.id}
         ELSE known_files

\* The loop records nothing after process_file returned.
KnownAfterItemAsProcessed(file, out) == ProcessFileKnown(file, out)

\* known_files after the loop body for one changed item: the drive watcher
\* assigns known_files[file['id']] after process_file returned, the local
\* watcher leaves known_files as process_file left it.
KnownAfterItem(file, out) ==
    IF IsDrive
    THEN ProcessFileKnown(file, out) \cup {file.id}
    ELSE ProcessFileKnown(file, out)

\* The outcomes of process_file in which the item was not ingested although
\* it is supported: the download or read failed, or process_file_for_rag
\* returned False.
IngestionFailed(out) == out \in {"download_failed", "rag_false"}

\* The loop body for one changed item: process_file(file) and, in the drive
\* watcher, the assignment known_files[file['id']] that follows it.
ProcessFile(f, t) ==
    LET file == [id |-> f, trashed |-> t] IN
    /\ wpc = "process"
    /\ file \in changed_files
    /\ changed_files' = changed_files \ {file}
    /\ proc_calls' = proc_calls \cup {file.id}
    /\ del_calls' = IF IsDrive /\ file.trashed
                    THEN del_calls \cup {file.id} ELSE del_calls
    /\ removed' = IF IsDrive /\ file.trashed /\ files[f].st # "present"
                  THEN removed \cup {file.id} ELSE removed
    /\ \E out \in (IF IsDrive /\ file.trashed THEN {"trashed"}
                   ELSE OutcomesFor(f)) :
         IF out = "extract_raises"
         THEN /\ Stop("item_error")
              /\ UNCHANGED <<known_files, failed>>
         ELSE /\ known_files' = KnownAfterItem(file, out)
              /\ failed' = IF IngestionFailed(out) /\ files[f].st = "present"
                           THEN failed \cup {f} ELSE failed \ {f}
              /\ UNCHANGED <<wpc, stop_cause, wraised>>
    /\ UNCHANGED <<mode, files, clock, last_check_time, config_lct,
                   initialized, deleted_file_ids, cycle, events, restarts,
                   det_errs, reported>>
    /\ UNCHANGED <<ivars, tvars>>

\* All changed items are processed: the loop turns to the deleted ids.
BeginDeletes ==
    /\ wpc = "process"
    /\ changed_files = {}
    /\ wpc' = "deletes"
    /\ UNCHANGED <<mode, files, clock, last_check_time, config_lct,
                   known_files, initialized, changed_files, deleted_file_ids,
                   stop_cause, wraised, cycle, proc_calls, del_calls, events>>
    /\ UNCHANGED wghost
    /\ UNCHANGED <<ivars, tvars>>

\* The loop body for one deleted id: delete_document_by_file_id and
\* del self.known_files[file_id], which raises KeyError for a missing key.
ProcessDeleted(f) ==
    /\ wpc = "deletes"
    /\ f \in deleted_file_ids
    /\ deleted_file_ids' = deleted_file_ids \ {f}
    /\ del_calls' = del_calls \cup {f}
    /\ IF f \in known_files
       THEN /\ known_files' = known_files \ {f}
            /\ UNCHANGED <<wpc, stop_cause, wraised>>
       ELSE /\ Stop("key_error")
            /\ UNCHANGED known_files
    /\ removed' = IF files[f].st # "present"
                  THEN removed \cup {f} ELSE removed
    /\ UNCHANGED <<mode, files, clock, last_check_time, config_lct,
                   initialized, changed_files, cycle, proc_calls, events,
                   restarts, det_errs, reported, failed>>
    /\ UNCHANGED <<ivars, tvars>>

\* time.sleep(interval_seconds), then the next cycle.
Sleep ==
    /\ wpc = "deletes"
    /\ deleted_file_ids = {}
    /\ wpc' = "poll"
    /\ UNCHANGED <<mode, files, clock, last_check_time, config_lct,
                   known_files, initialized, changed_files, deleted_file_ids,
                   stop_cause, wraised, cycle, proc_calls, del_calls, events>>
    /\ UNCHANGED wghost
    /\ UNCHANGED <<ivars, tvars>>

\* The source: a file is created, modified or restored.
EnvWrite(f) ==
    /\ wpc # "stopped"
    /\ events < MaxEvents
    /\ events' = events + 1
    /\ files' = [files EXCEPT ![f] = [st |-> "present", stamp |-> clock]]
    /\ removed' = removed \ {f}
    /\ failed' = failed \ {f}
    /\ UNCHANGED <<mode, clock, last_check_time, config_lct, known_files,
                   initialized, wpc, changed_files, deleted_file_ids,
                   stop_cause, wraised, cycle, proc_calls, del_calls,
                   restarts, det_errs, reported>>
    /\ UNCHANGED <<ivars, tvars>>

\* The source: a file is deleted; in the drive it may go to the trash first.
EnvRemove(f) ==
    /\ wpc # "stopped"
    /\ events < MaxEvents
    /\ files[f].st # "absent"
    /\ events' = events + 1
    /\ \E st \in (IF IsDrive /\ files[f].st = "present"
                  THEN {"trashed", "absent"} ELSE {"absent"}) :
         files' = [files EXCEPT ![f].st = st]
    /\ UNCHANGED <<mode, clock, last_check_time, config_lct, known_files,
                   initialized, wpc, changed_files, deleted_file_ids,
                   stop_cause, wraised, cycle, proc_calls, del_calls>>
    /\ failed' = failed \ {f}
    /\ UNCHANGED <<restarts, det_errs, reported, removed>>
    /\ UNCHANGED <<ivars, tvars>>

\* Time passes.
Tick ==
    /\ wpc # "stopped"
    /\ clock < MaxClock * ClockStep
    /\ clock' = clock + ClockStep
    /\ UNCHANGED <<mode, files, last_check_time, config_lct, known_files,
                   initialized, wpc, changed_files, deleted_file_ids,
                   stop_cause, wraised, cycle, proc_calls, del_calls, events>>
    /\ UNCHANGED wghost
    /\ UNCHANGED <<ivars, tvars>>

\* The watcher process is started again: __init__ builds a new object and
\* load_config reads last_check_time from the config file, or falls back to
\* the epoch default when the file cannot be loaded.
Restart ==
    /\ wpc \in {"poll", "stopped"}
    /\ restarts < MaxRestarts
    /\ restarts' = restarts + 1
    /\ \E loaded \in BOOLEAN :
         last_check_time' = IF loaded THEN Strptime(config_lct)
                            ELSE Strptime(EpochStr)
    /\ known_files' = {}
    /\ initialized' = FALSE
    /\ wpc' = "start"
    /\ changed_files' = {}
    /\ deleted_file_ids' = {}
    /\ stop_cause' = "none"
    /\ wraised' = FALSE
    /\ proc_calls' = {}
    /\ del_calls' = {}
    /\ det_errs' = {}
    /\ reported' = {}
    /\ removed' = {}
    /\ failed' = {}
    /\ UNCHANGED <<mode, files, clock, config_lct, cycle, events>>
    /\ UNCHANGED <<ivars, tvars>>

\* The watcher right after __init__ (load_config read the config file).
WatcherInit ==
    /\ mode \in Modes
    /\ clock = ClockStep
    /\ files \in [FileIdsW -> {[st |-> "absent", stamp |-> 0],
                               [st |-> "present", stamp |-> ClockStep]}]
    /\ config_lct = EpochStr
    /\ last_check_time = Strptime(config_lct)
    /\ known_files = {}
    /\ initialized = FALSE
    /\ wpc = "start"
    /\ changed_files = {}
    /\ deleted_file_ids = {}
    /\ stop_cause = "none"
    /\ wraised = FALSE
    /\ cycle = 0
    /\ proc_calls = {}
    /\ del_calls = {}
    /\ events = 0
    /\ restarts = 0
    /\ det_errs = {}
    /\ reported = {}
    /\ removed = {}
    /\ failed = {}

\* No watcher: the indexer is called directly.
WatcherOff ==
    /\ mode = "local"
    /\ clock = 0
    /\ files = [f \in FileIdsW |-> [st |-> "absent", stamp |-> 0]]
    /\ config_lct = EpochStr
    /\ last_check_time = 0
    /\ known_files = {}
    /\ initialized = FALSE
    /\ wpc = "stopped"
    /\ changed_files = {}
    /\ deleted_file_ids = {}
    /\ stop_cause = "none"
    /\ wraised = FALSE
    /\ cycle = 0
    /\ proc_calls = {}
    /\ del_calls = {}
    /\ events = 0
    /\ restarts = 0
    /\ det_errs = {}
    /\ reported = {}
    /\ removed = {}
    /\ failed = {}

----------------------------------------------------------------------------
\* Specifications

\* The indexer, called directly with documents of Docs.
(***************************************************************************)
(* The text functions.  A text is a sequence of characters (chunk_text) or *)
(* a sequence of lines, the text being the lines joined by newlines.       *)
(***************************************************************************)

\* All sequences over S of length at most n.
SeqsUpTo(S, n) == UNION {[1..k -> S] : k \in 0..n}

\* ---- chunk_text (common/text_processor.py) ----

Chars == {"A", "B", "\r"}

ChunkSizes == 1..3

Overlaps == 0..3

\* The text is chunked as it is.
RemoveCRKeep(t) == t

\* text.replace('\r', '')
RemoveCR(t) == SelectSeq(t, LAMBDA c : c # "\r")

\* for i in range(0, len(text), step): chunk = text[i:i + chunk_size];
\* a chunk is appended when it is not empty.
RECURSIVE Windows(_, _, _, _)
Windows(t, i, size, step) ==
    IF i >= Len(t)
    THEN <<>>
    ELSE LET chunk == SubSeq(t, i + 1, Min(i + size, Len(t)))
         IN  (IF chunk # <<>> THEN <<chunk>> ELSE <<>>)
                 \o Windows(t, i + step, size, step)

\* chunk_text(text, chunk_size, overlap).  range() raises ValueError for a
\* step of zero and is empty for a negative step.
ChunkText(t, size, ov) ==
    IF t = <<>>
    THEN [raised |-> FALSE, chunks |-> <<>>]
    ELSE IF size - ov = 0
         THEN [raised |-> TRUE, chunks |-> <<>>]
         ELSE IF size - ov < 0
              THEN [raised |-> FALSE, chunks |-> <<>>]
              ELSE [raised |-> FALSE,
                    chunks |-> Windows(RemoveCR(t), 0, size, size - ov)]

\* insert_document_chunks_batch: the records prepared for insertion,
\* chunk_index being the position given by enumerate.
InsertData(chs) ==
    [i \in 1..Len(chs) |-> [content |-> chs[i], chunk_index |-> i - 1]]

\* chunk_text is applied to the text (the run has no other input).
CallChunkText ==
    /\ top = "none"
    /\ body = <<>> /\ file_content = <<>>
    /\ top' = "chunk_text"
    /\ \E size \in ChunkSizes, ov \in Overlaps :
         /\ chunk_size' = size
         /\ overlap' = ov
         /\ chunks' = ChunkText(text, size, ov)
    /\ UNCHANGED <<text, data>>
    /\ UNCHANGED <<svars, pvars>>
    /\ UNCHANGED <<ivars, wvars>>

\* process_file_for_rag_async passes the chunks of chunk_text to
\* insert_document_chunks_batch.
PrepareData ==
    /\ top = "chunk_text"
    /\ ~chunks.raised
    /\ top' = "insert_document_chunks_batch"
    /\ data' = InsertData(chunks.chunks)
    /\ UNCHANGED <<text, chunk_size, overlap, chunks>>
    /\ UNCHANGED <<svars, pvars>>
    /\ UNCHANGED <<ivars, wvars>>

\* ---- extract_sections, split_section_at_paragraphs,
\* ---- create_section_aware_chunks (common/section_aware_chunking.py) ----

START_MARKER == "[START OF SECTION]"

END_MARKER == "[END OF SECTION]"

HEADER_ONLY_MARGIN == 10

FALLBACK_HEADER == "# Document"

HeaderLines == {"# A", "## B"}

TextLines == {"aaaaaaaaaaaa", "b"}

Lines == HeaderLines \cup TextLines \cup {"", START_MARKER, END_MARKER}

MaxChunkSizes == {10, 20}

\* header_pattern: one to three '#', whitespace, text.
IsHeader(l) == l \in HeaderLines

RECURSIVE LStrip(_)
LStrip(ls) ==
    IF ls # <<>> /\ Head(ls) = "" THEN LStrip(Tail(ls)) ELSE ls

RECURSIVE RStrip(_)
RStrip(ls) ==
    IF ls # <<>> /\ ls[Len(ls)] = ""
    THEN RStrip(SubSeq(ls, 1, Len(ls) - 1))
    ELSE ls

\* str.strip() of a text whose lines carry no blanks of their own: the
\* empty lines at both ends go.
Strip(ls) == RStrip(LStrip(ls))

RECURSIVE SumLineLen(_)
SumLineLen(ls) ==
    IF ls = <<>> THEN 0 ELSE Len(Head(ls)) + SumLineLen(Tail(ls))

\* len() of the text: the characters of the lines and the newlines between.
StrLen(ls) == IF ls = <<>> THEN 0 ELSE SumLineLen(ls) + Len(ls) - 1

\* re.split(header_pattern, text): the texts between the header lines and
\* the header lines, in order.
RECURSIVE SplitAtHeaders(_, _)
SplitAtHeaders(ls, cur) ==
    IF ls = <<>>
    THEN <<cur>>
    ELSE IF IsHeader(Head(ls))
         THEN <<cur, <<Head(ls)>>>> \o SplitAtHeaders(Tail(ls), <<>>)
         ELSE SplitAtHeaders(Tail(ls), Append(cur, Head(ls)))

\* '\n\n'.join(current_content)
RECURSIVE JoinParts(_)
JoinParts(ps) ==
    IF ps = <<>> THEN <<>>
    ELSE IF Len(ps) = 1 THEN Head(ps)
    ELSE Head(ps) \o <<"">> \o JoinParts(Tail(ps))

\* .replace('[START OF SECTION]', '').replace('[END OF SECTION]', '')
RemoveMarkers(ls) ==
    [i \in 1..Len(ls) |->
        IF ls[i] \in {START_MARKER, END_MARKER} THEN "" ELSE ls[i]]

\* The Section built from a header and the collected content.
MakeSection(header, content) ==
    LET full_content == JoinParts(content) IN
    [header       |-> header,
     content      |-> Strip(RemoveMarkers(full_content)),
     start_marker |-> \E i \in 1..Len(full_content) :
                          full_content[i] = START_MARKER,
     end_marker   |-> \E i \in 1..Len(full_content) :
                          full_content[i] = END_MARKER]

\* "if current_header and current_content": the section is saved.
SaveSection(secs, current_header, current_content) ==
    IF current_header # "" /\ current_content # <<>>
    THEN Append(secs, MakeSection(current_header, current_content))
    ELSE secs

\* The loop of extract_sections over the parts; current_header "" is None.
RECURSIVE SectionsLoop(_, _, _, _)
SectionsLoop(parts, current_header, current_content, secs) ==
    IF parts = <<>>
    THEN SaveSection(secs, current_header, current_content)
    ELSE LET part == Strip(Head(parts)) IN
         IF part = <<>>
         THEN SectionsLoop(Tail(parts), current_header, current_content, secs)
         ELSE IF IsHeader(part[1])
              THEN SectionsLoop(Tail(parts), part[1], <<>>,
                       SaveSection(secs, current_header, current_content))
              ELSE SectionsLoop(Tail(parts), current_header,
                       Append(current_content, part), secs)

ExtractSections(t) == SectionsLoop(SplitAtHeaders(t, <<>>), "", <<>>, <<>>)

\* content.split('\n\n') with each paragraph stripped and the empty ones
\* skipped: the runs of lines between empty lines.
RECURSIVE Paragraphs(_, _)
Paragraphs(ls, cur) ==
    IF ls = <<>>
    THEN IF cur = <<>> THEN <<>> ELSE <<cur>>
    ELSE IF Head(ls) = ""
         THEN (IF cur = <<>> THEN <<>> ELSE <<cur>>)
                  \o Paragraphs(Tail(ls), <<>>)
         ELSE Paragraphs(Tail(ls), Append(cur, Head(ls)))

RECURSIVE SumParaLen(_)
SumParaLen(ps) ==
    IF ps = <<>> THEN 0 ELSE StrLen(Head(ps)) + 2 + SumParaLen(Tail(ps))

\* len(current_chunk): header, '\n\n', and each paragraph with its '\n\n'.
CurrentChunkLen(header, cur) == Len(header) + 2 + SumParaLen(cur)

\* The loop of split_section_at_paragraphs over the paragraphs; a chunk is
\* the sequence of the paragraphs that follow the header in it.
RECURSIVE SplitLoop(_, _, _, _, _)
SplitLoop(header, paras, cur, out, max) ==
    IF paras = <<>>
    THEN IF CurrentChunkLen(header, cur) > Len(header) + HEADER_ONLY_MARGIN
         THEN Append(out, cur)
         ELSE out
    ELSE LET para == Head(paras) IN
         IF CurrentChunkLen(header, cur) + StrLen(para) + 2 > max
         THEN IF CurrentChunkLen(header, cur)
                     > Len(header) + HEADER_ONLY_MARGIN
              THEN SplitLoop(header, Tail(paras), <<para>>,
                             Append(out, cur), max)
              ELSE SplitLoop(header, Tail(paras), <<>>,
                             Append(out, Append(cur, para)), max)
         ELSE SplitLoop(header, Tail(paras), Append(cur, para), out, max)

SplitSectionAtParagraphs(section, max) ==
    IF Len(section.header) + 2 + StrLen(section.content) <= max
    THEN <<Paragraphs(section.content, <<>>)>>
    ELSE SplitLoop(section.header, Paragraphs(section.content, <<>>),
                   <<>>, <<>>, max)

\* extract_section_name: the header without its '#' marks, up to a colon.
ExtractSectionName(header) ==
    CASE header = "# A" -> "A"
      [] header = "## B" -> "B"
      [] header = FALLBACK_HEADER -> "Document"

\* The chunk index is the index of the chunk within its section.
EnrichedIndexLocal(global_chunk_index, section_chunk_idx) ==
    section_chunk_idx

\* chunk_index=global_chunk_index
EnrichedIndex(global_chunk_index, section_chunk_idx) ==
    global_chunk_index

\* The loop of create_section_aware_chunks over the sections.
RECURSIVE EnrichLoop(_, _, _)
EnrichLoop(secs, max, global_chunk_index) ==
    IF secs = <<>>
    THEN <<>>
    ELSE LET section == Head(secs)
             section_chunks == SplitSectionAtParagraphs(section, max)
         IN  [k \in 1..Len(section_chunks) |->
                 [content |-> [header |-> section.header,
                               paras  |-> section_chunks[k]],
                  chunk_index |->
                      EnrichedIndex(global_chunk_index + k - 1, k - 1),
                  section_name |-> ExtractSectionName(section.header),
                  section_chunk_index |-> k - 1,
                  total_section_chunks |-> Len(section_chunks)]]
             \o EnrichLoop(Tail(secs), max,
                           global_chunk_index + Len(section_chunks))

NoSection ==
    [header |-> "", content |-> <<>>,
     start_marker |-> FALSE, end_marker |-> FALSE]

\* The sections create_section_aware_chunks works on: those of
\* extract_sections, or the fallback section around the whole text.
SectionsOrFallback(t) ==
    IF ExtractSections(t) = <<>>
    THEN <<[header |-> FALLBACK_HEADER, content |-> t,
            start_marker |-> FALSE, end_marker |-> FALSE]>>
    ELSE ExtractSections(t)

\* create_section_aware_chunks.  With a frontmatter the metadata of the
\* first chunk reads frontmatter.tech_stack, an attribute that
\* CaseStudyFrontmatter does not have: AttributeError.
CreateSectionAwareChunks(t, fm, max) ==
    LET all == EnrichLoop(SectionsOrFallback(t), max, 0) IN
    IF fm /\ all # <<>>
    THEN [raised |-> TRUE, chunks |-> <<>>]
    ELSE [raised |-> FALSE, chunks |-> all]

\* extract_sections is applied to the body (the run has no other input).
CallExtractSections ==
    /\ top = "none"
    /\ text = <<>> /\ file_content = <<>>
    /\ top' = "extract_sections"
    /\ sections' = ExtractSections(body)
    /\ UNCHANGED <<body, max_chunk_size, frontmatter, enriched_chunks,
                   split_section, split_chunks>>
    /\ UNCHANGED <<cvars, pvars>>
    /\ UNCHANGED <<ivars, wvars>>

\* split_section_at_paragraphs is applied to one of the sections of the
\* body, as create_section_aware_chunks calls it; the chunks are kept with
\* the header they start with.
CallSplitSectionAtParagraphs ==
    /\ top = "none"
    /\ text = <<>> /\ file_content = <<>>
    /\ top' = "split_section_at_paragraphs"
    /\ \E i \in 1..MaxLines, max \in MaxChunkSizes :
         /\ i <= Len(SectionsOrFallback(body))
         /\ max_chunk_size' = max
         /\ split_section' = SectionsOrFallback(body)[i]
         /\ split_chunks' =
               [k \in 1..Len(SplitSectionAtParagraphs(split_section', max))
                   |-> [header |-> split_section'.header,
                        paras  |-> SplitSectionAtParagraphs(
                                       split_section', max)[k]]]
    /\ UNCHANGED <<body, frontmatter, sections, enriched_chunks>>
    /\ UNCHANGED <<cvars, pvars>>
    /\ UNCHANGED <<ivars, wvars>>

\* create_section_aware_chunks is applied to the body.
CallCreateSectionAwareChunks ==
    /\ top = "none"
    /\ text = <<>> /\ file_content = <<>>
    /\ top' = "create_section_aware_chunks"
    /\ \E max \in MaxChunkSizes, fm \in BOOLEAN :
         /\ max_chunk_size' = max
         /\ frontmatter' = fm
         /\ enriched_chunks' = CreateSectionAwareChunks(body, fm, max)
    /\ UNCHANGED <<body, sections, split_section, split_chunks>>
    /\ UNCHANGED <<cvars, pvars>>
    /\ UNCHANGED <<ivars, wvars>>

\* ---- extract_frontmatter, validate_frontmatter, parse_case_study
\* ---- (common/metadata_parser.py) ----

DELIMITER == "---"

INVALID_BYTES == "<invalid utf-8>"

REPLACEMENT == "<U+FFFD>"

RequiredFields == {"title", "client", "industry", "project_type"}

RequiredSeq == <<"title", "client", "industry", "project_type">>

\* A line "field: value" of the header block; the value is a YAML string or
\* a YAML integer.
FieldLine(f, ty) == f \o (IF ty = "str" THEN ": Acme" ELSE ": 7")

FieldLines == {FieldLine(f, ty) : f \in RequiredFields, ty \in {"str", "int"}}

\* The header block with each required field absent, a string or an
\* integer, the fields in the order of RequiredSeq.
RECURSIVE MappingBlock(_, _)
MappingBlock(c, i) ==
    IF i > Len(RequiredSeq)
    THEN <<>>
    ELSE (IF c[RequiredSeq[i]] = "absent"
          THEN <<>>
          ELSE <<FieldLine(RequiredSeq[i], c[RequiredSeq[i]])>>)
             \o MappingBlock(c, i + 1)

\* The header blocks: mappings, no line at all, an empty line, a plain
\* scalar, a list, and text that is not YAML.
Blocks ==
    {MappingBlock(c, 1) : c \in [RequiredFields -> {"absent", "str", "int"}]}
        \cup {<<"">>, <<"just text">>, <<"- item">>, <<": invalid yaml">>}

\* What follows the closing delimiter line: nothing (the file ends without
\* a newline), the end of the file, or a body.
Tails == {<<>>, <<"">>, <<"", "text", "">>, <<"text">>, <<INVALID_BYTES, "">>}

Documents ==
    {<<DELIMITER>> \o b \o <<DELIMITER>> \o t : b \in Blocks, t \in Tails}
        \cup {<<"text", "">>, <<DELIMITER, "text", "">>}

\* file_content.decode('utf-8', errors='replace')
Decode(ls) ==
    [i \in 1..Len(ls) |-> IF ls[i] = INVALID_BYTES THEN REPLACEMENT ELSE ls[i]]

\* The first line after the opening delimiter that is not empty, or one
\* past the end.
FirstNonBlank(ls) ==
    IF \E k \in 2..Len(ls) : ls[k] # ""
    THEN CHOOSE k \in 2..Len(ls) :
             /\ ls[k] # ""
             /\ \A m \in 2..(k - 1) : ls[m] = ""
    ELSE Len(ls) + 1

\* The lines a block can end before: a delimiter line followed by a newline.
Closings(ls, k) ==
    {j \in (k + 1)..(Len(ls) - 1) : ls[j] = DELIMITER}

\* The lines group 1 of the pattern can start at: '---\s*\n' takes the
\* opening delimiter and any number of the empty lines after it.
BlockStarts(ls) ==
    {k \in 2..Min(FirstNonBlank(ls), Len(ls)) : Closings(ls, k) # {}}

SetMax(S) == CHOOSE x \in S : \A y \in S : y <= x

SetMin(S) == CHOOSE x \in S : \A y \in S : x <= y

\* re.match(r'^---\s*\n(.*?)\n---\s*\n(.*)$', content, re.DOTALL): greedy
\* '\s*', the shortest group 1; '\s*\n' after the closing delimiter takes
\* the empty lines after it.
MatchFrontmatter(ls) ==
    IF ls = <<>> \/ Head(ls) # DELIMITER \/ BlockStarts(ls) = {}
    THEN [matched |-> FALSE, frontmatter_text |-> <<>>, body |-> <<>>]
    ELSE LET k == SetMax(BlockStarts(ls))
             j == SetMin(Closings(ls, k))
         IN  [matched |-> TRUE,
              frontmatter_text |-> SubSeq(ls, k, j - 1),
              body |-> LStrip(SubSeq(ls, j + 1, Len(ls)))]

\* The value of field f in a mapping block.
FieldValue(b, f) ==
    IF \E i \in 1..Len(b) : b[i] = FieldLine(f, "str") THEN "str"
    ELSE IF \E i \in 1..Len(b) : b[i] = FieldLine(f, "int") THEN "int"
    ELSE "absent"

\* yaml.safe_load(frontmatter_text): None for an empty document, a dict for
\* a mapping, a str or a list for a scalar or a sequence, YAMLError
\* otherwise.
YamlSafeLoad(b) ==
    LET nonblank == SelectSeq(b, LAMBDA l : l # "") IN
    IF nonblank = <<>>
    THEN [kind |-> "none", dict |-> [f \in RequiredFields |-> "absent"]]
    ELSE IF \A i \in 1..Len(nonblank) : nonblank[i] \in FieldLines
    THEN [kind |-> "dict",
          dict |-> [f \in RequiredFields |-> FieldValue(nonblank, f)]]
    ELSE [kind |-> IF \A i \in 1..Len(nonblank) : nonblank[i] = "just text"
                   THEN "str"
                   ELSE IF \A i \in 1..Len(nonblank) : nonblank[i] = "- item"
                        THEN "list"
                        ELSE "yaml_error",
          dict |-> [f \in RequiredFields |-> "absent"]]

\* extract_frontmatter: (frontmatter, body); "frontmatter or {}" keeps a
\* str or a list as it is.
ExtractFrontmatter(content) ==
    LET m == MatchFrontmatter(content)
        y == YamlSafeLoad(m.frontmatter_text)
    IN  IF ~m.matched \/ y.kind = "yaml_error"
        THEN [frontmatter |-> [kind |-> "empty_dict", dict |-> y.dict],
              body |-> content]
        ELSE IF y.kind = "none"
             THEN [frontmatter |-> [kind |-> "empty_dict", dict |-> y.dict],
                   body |-> m.body]
             ELSE [frontmatter |-> y, body |-> m.body]

\* validate_frontmatter: CaseStudyFrontmatter(**frontmatter) raises
\* TypeError when frontmatter is not a mapping, and only ValidationError
\* (a field missing or not a string) is caught.
ValidateFrontmatter(fm) ==
    IF fm.kind \in {"str", "list"}
    THEN "type_error"
    ELSE IF fm.kind = "dict" /\ \A f \in RequiredFields : fm.dict[f] = "str"
         THEN "valid"
         ELSE "none"

NoMetadata == [f \in RequiredFields |-> "absent"]

\* parse_case_study(file_content, file_name)
ParseCaseStudy(fc) ==
    LET text_content == Decode(fc)
        e == ExtractFrontmatter(text_content)
    IN  IF e.frontmatter.kind = "empty_dict"
        THEN [raised |-> FALSE, validated |-> FALSE,
              frontmatter |-> NoMetadata, body |-> text_content]
        ELSE CASE ValidateFrontmatter(e.frontmatter) = "type_error" ->
                    [raised |-> TRUE, validated |-> FALSE,
                     frontmatter |-> NoMetadata, body |-> <<>>]
               [] ValidateFrontmatter(e.frontmatter) = "none" ->
                    [raised |-> FALSE, validated |-> FALSE,
                     frontmatter |-> NoMetadata, body |-> text_content]
               [] ValidateFrontmatter(e.frontmatter) = "valid" ->
                    [raised |-> FALSE, validated |-> TRUE,
                     frontmatter |-> e.frontmatter.dict, body |-> e.body]

\* parse_case_study is applied to the file (the run has no other input).
CallParseCaseStudy ==
    /\ top = "none"
    /\ text = <<>> /\ body = <<>>
    /\ top' = "parse_case_study"
    /\ parsed' = ParseCaseStudy(file_content)
    /\ UNCHANGED file_content
    /\ UNCHANGED <<cvars, svars>>
    /\ UNCHANGED <<ivars, wvars>>

\* No text function has been applied and none has a result.
NoTextResults ==
    /\ top = "none"
    /\ chunk_size = 0
    /\ overlap = 0
    /\ chunks = [raised |-> FALSE, chunks |-> <<>>]
    /\ data = <<>>
    /\ max_chunk_size = 0
    /\ frontmatter = FALSE
    /\ sections = <<>>
    /\ enriched_chunks = [raised |-> FALSE, chunks |-> <<>>]
    /\ split_section = NoSection
    /\ split_chunks = <<>>
    /\ parsed = [raised |-> FALSE, validated |-> FALSE,
                 frontmatter |-> NoMetadata, body |-> <<>>]

\* The text functions are not part of the run.
TextOff ==
    /\ NoTextResults
    /\ text = <<>>
    /\ body = <<>>
    /\ file_content = <<>>

\* One input for one of the text functions.
TextInputs ==
    /\ NoTextResults
    /\ \/ /\ text \in SeqsUpTo(Chars, MaxLen)
          /\ body = <<>>
          /\ file_content = <<>>
       \/ /\ text = <<>>
          /\ body \in SeqsUpTo(Lines, MaxLines)
          /\ file_content = <<>>
       \/ /\ text = <<>>
          /\ body = <<>>
          /\ file_content \in Documents

Init == IndexerInit /\ WatcherOff /\ TextOff

Next ==
    \/ \E d \in Docs : Start(d)
    \/ DeleteChunks
    \/ DeleteRows
    \/ DeleteMeta
    \/ MetaSelect
    \/ MetaWrite
    \/ RowsDelete
    \/ RowInsert
    \/ NoChunks
    \/ Embed
    \/ ChunksCall
    \/ InsertBatch

Spec == Init /\ [][Next]_vars

\* A watcher and its source.
WatchInit == IndexerInit /\ variant = "sync" /\ WatcherInit /\ TextOff

WatchNext ==
    \/ InitialScan
    \/ GetChanges
    \/ PollError
    \/ CheckForDeletedFiles
    \/ \E f \in FileIdsW, t \in BOOLEAN : ProcessFile(f, t)
    \/ BeginDeletes
    \/ \E f \in FileIdsW : ProcessDeleted(f)
    \/ Sleep
    \/ \E f \in FileIdsW : EnvWrite(f)
    \/ \E f \in FileIdsW : EnvRemove(f)
    \/ Tick
    \/ Restart

WatchSpec == WatchInit /\ [][WatchNext]_vars

\* The text functions, each applied to one input drawn from the bounded
\* sets of inputs.
TextInit == IndexerInit /\ variant = "sync" /\ WatcherOff /\ TextInputs

TextNext ==
    \/ CallChunkText
    \/ PrepareData
    \/ CallExtractSections
    \/ CallCreateSectionAwareChunks
    \/ CallSplitSectionAtParagraphs
    \/ CallParseCaseStudy

TextSpec == TextInit /\ [][TextNext]_vars

----------------------------------------------------------------------------
\* Properties of the indexer

LogIdx == DOMAIN oplog

StepRank(step) ==
    CASE step = "delete" -> 1
      [] step = "metadata" -> 2
      [] step = "rows" -> 3
      [] step = "chunks" -> 3

\* The chunk indices 0..n-1 are each held exactly once for file f, in
\* records written by run r.
ExactChunks(st, f, n, r) ==
    LET bs == ChunkBatchesOf(st, f) IN
    /\ \A k \in DOMAIN bs : bs[k].run = r
    /\ \A i \in 0..(n - 1) :
          Cardinality({k \in DOMAIN bs : bs[k].lo <= i /\ i <= bs[k].hi}) = 1
    /\ SumLen(bs) = n

\* No chunk index is held twice for file f.
NoDuplicateChunks(st, f) ==
    LET bs == ChunkBatchesOf(st, f) IN
    \A k, l \in DOMAIN bs :
        k # l => (bs[k].hi < bs[l].lo \/ bs[l].hi < bs[k].lo)

\* No row is held twice for file f.
NoDuplicateRows(st, f) ==
    LET rs == RowsOfFid(st, f) IN
    \A k, l \in DOMAIN rs : k # l => rs[k].row # rs[l].row

\* C1: when process() ran twice in succession on the same document and both
\* runs reported success, the store holds after the second run as many chunk
\* and row records of the file as after the first, none of them twice, and
\* for a tabular document exactly its data rows.
C1_IdempotentReingestion ==
    (/\ pc = "done"
     /\ Len(hist) >= 2
     /\ hist[Len(hist) - 1].doc = hist[Len(hist)].doc
     /\ hist[Len(hist) - 1].success
     /\ hist[Len(hist)].success)
    => /\ hist[Len(hist)].chunks = hist[Len(hist) - 1].chunks
       /\ hist[Len(hist)].rows = hist[Len(hist) - 1].rows
       /\ NoDuplicateChunks(store, doc.fid)
       /\ NoDuplicateRows(store, doc.fid)
       /\ (doc.kind = "tabular" => RowCount(store, doc.fid) = doc.nrows)

\* C2: within one invocation the remote calls of the delete step all come
\* before those of the metadata upsert, which all come before the row and
\* chunk writes; no metadata call without the delete step before it, and no
\* row or chunk call without the metadata upsert before it.
C2_DeleteThenMetadataThenChildren ==
    /\ \A i, j \in LogIdx :
          i < j => StepRank(oplog[i].step) <= StepRank(oplog[j].step)
    /\ \A j \in LogIdx :
          StepRank(oplog[j].step) = 2 =>
              \E i \in LogIdx : i < j /\ oplog[i].step = "delete"
    /\ \A j \in LogIdx :
          StepRank(oplog[j].step) = 3 =>
              \E i \in LogIdx : i < j /\ oplog[i].step = "metadata"

C2_Witness ==
    /\ pc = "done"
    /\ \E i \in LogIdx : oplog[i].op = "delete_metadata"
    /\ \E i \in LogIdx : oplog[i].op = "insert_metadata"
    /\ \E i \in LogIdx : oplog[i].op = "insert_row"
    /\ \E i \in LogIdx : oplog[i].op = "insert_chunks"

\* A store write of this invocation failed and was not made good by a retry.
WriteFailed ==
    \E i \in LogIdx :
        /\ ~oplog[i].ok
        /\ \/ oplog[i].op \in {"insert_metadata", "update_metadata",
                                "insert_row"}
           \/ (oplog[i].op = "insert_chunks" /\ retry_out # "returned")

\* C4: a run in which a metadata, row or chunk write failed does not report
\* success.
C4_WriteFailureIsReported ==
    (pc = "done" /\ WriteFailed) => ~result.success

\* C5: no exception leaves process(); every invocation that ended returned
\* one result; zero chunks give a failed result with the "No chunks created"
\* message; a remote call that failed on its last retry gives a failed result
\* with an error message.
C5_NeverRaises ==
    /\ ~raised
    /\ Len(hist) = (IF pc \in {"idle", "done"} THEN run ELSE run - 1)
    /\ (pc = "done") => result.returned
    /\ (pc = "done" /\ doc.nchunks = 0) =>
          /\ ~result.success
          /\ variant = "async" =>
                result.error_message = "No chunks created from text"
    /\ (retry_out = "raised") =>
          /\ pc = "done"
          /\ result.returned
          /\ ~result.success
          /\ result.error_message # "none"

C5_Witness ==
    /\ pc = "done"
    /\ variant = "async"
    /\ retry_out = "raised"
    /\ result.returned

\* C6: the wrapped insert is invoked at most MAX_ATTEMPTS times; every
\* invocation but the last one failed and was followed by a sleep of
\* BACKOFF_FACTOR ** k seconds (k = 0, 1, ...); after a success nothing more
\* is invoked; after the last failure the exception is re-raised with no
\* further sleep.
C6_RetryPolicy ==
    variant = "async" =>
        /\ calls <= MAX_ATTEMPTS
        /\ Len(waits) = attempt
        /\ \A k \in 1..Len(waits) : waits[k] = BACKOFF_FACTOR ^ (k - 1)
        /\ (pc \in {"insert_batch", "done"} /\ calls > 0) =>
              calls = attempt + 1
        /\ (retry_out = "returned") =>
              /\ pc = "done"
              /\ result.success
              /\ result.chunks_inserted = doc.nchunks
        /\ (retry_out = "raised") =>
              /\ calls = MAX_ATTEMPTS
              /\ Len(waits) = MAX_ATTEMPTS - 1
              /\ pc = "done"

C6_Witness ==
    /\ variant = "async"
    /\ retry_out = "raised"
    /\ calls = 3
    /\ waits = <<1, 2>>

\* C7: in the async indexer every remote call that failed is called again,
\* unless it already failed MAX_ATTEMPTS times.
C7_EveryRemoteCallRetried ==
    (variant = "async" /\ pc = "done") =>
        \A i \in LogIdx :
            ~oplog[i].ok =>
                \/ \E j \in LogIdx : j > i /\ oplog[j].op = oplog[i].op
                \/ Cardinality({j \in LogIdx : /\ oplog[j].op = oplog[i].op
                                                /\ ~oplog[j].ok})
                      >= MAX_ATTEMPTS

\* C8: whenever the store holds a row or a chunk written by the current
\* invocation, it holds the metadata record of that file.
C8_ChildrenReferenceMetadata ==
    (run > 0 /\ doc # NoDoc) =>
        ((\/ \E k \in DOMAIN store.chunks :
                store.chunks[k].fid = doc.fid /\ store.chunks[k].run = run
          \/ \E k \in DOMAIN store.rows :
                store.rows[k].fid = doc.fid /\ store.rows[k].run = run)
         => store.meta[doc.fid] # 0)

\* C9: after a run that failed part-way, a following run that reports
\* success leaves for the file exactly the metadata record, the rows and the
\* chunks of that last run.
C9_SuccessfulRerunClosesWindow ==
    (/\ pc = "done"
     /\ Len(hist) >= 2
     /\ ~hist[Len(hist) - 1].success
     /\ result.success)
    => /\ store.meta[doc.fid] = run
       /\ ExactChunks(store, doc.fid, doc.nchunks, run)
       /\ \A k \in DOMAIN store.rows :
             store.rows[k].fid = doc.fid => store.rows[k].run = run
       /\ RowCount(store, doc.fid) = NRows(doc, variant)

----------------------------------------------------------------------------
\* Properties of the watchers

\* C3: an error raised while one changed item is extracted or indexed does
\* not end the watch loop: the loop never stops because of an item.
C3_ItemErrorDoesNotAbortCycle ==
    ~(wpc = "stopped" /\ stop_cause = "item_error")

\* A step in which get_changes ran and returned.
PollStep ==
    \/ wpc = "poll" /\ wpc' = "detect"
    \/ mode = "local" /\ wpc = "start" /\ wpc' = "poll"

\* C10: every get_changes that returns leaves last_check_time at the
\* current time and the config file holding that same time.
C10_PollAdvancesAndPersists ==
    [][PollStep => /\ last_check_time' = clock
                   /\ Strptime(config_lct') = last_check_time']_vars

\* C11: last_check_time never moves backwards, neither from one poll to the
\* next nor when a restarted watcher loads it from the config file.
C11_LastCheckTimeMonotonic ==
    [][last_check_time' >= last_check_time]_vars

\* A step in which check_for_deleted_files ran and returned.
DetectStep == wpc = "detect" /\ wpc' = "process"

C13_ReportedIdsAreDeleted ==
    (wpc \in {"poll", "stopped"} /\ cycle > 0) =>
        /\ reported \subseteq del_calls
        /\ reported \cap known_files = {}

\* C14: no step adds to known_files the id of an item that the source
\* reported as trashed.
C14_OnlyNonTrashedAdded ==
    [][\A f \in FileIdsW :
          (f \in known_files' /\ f \notin known_files) =>
              [id |-> f, trashed |-> TRUE] \notin changed_files]_vars

\* C15: an id that was removed is not in known_files as long as the item
\* has not come back to the source.
C15_RemovedIsTerminal ==
    removed \cap known_files = {}

\* C16: an error of the source during a poll leaves watch_for_changes as an
\* exception raised to its caller.
C16_SourceErrorPropagates ==
    (wpc = "stopped" /\ stop_cause = "source_error") => wraised

\* The records carry the chunk indexes 0, 1, 2, ... in their order.
DenseIndexes(recs) == \A i \in 1..Len(recs) : recs[i].chunk_index = i - 1

\* C17: the chunks that create_section_aware_chunks returns, and the
\* records that insert_document_chunks_batch prepares, carry the chunk
\* indexes 0..N-1 in output order, across all sections.
C17_ChunkIndexDense ==
    /\ (top = "create_section_aware_chunks" =>
            DenseIndexes(enriched_chunks.chunks))
    /\ (top = "insert_document_chunks_batch" => DenseIndexes(data))

\* create_section_aware_chunks returned the chunks of two sections, one of
\* them split into several chunks.
C17_Witness ==
    /\ top = "create_section_aware_chunks"
    /\ \E i, j \in 1..Len(enriched_chunks.chunks) :
         /\ enriched_chunks.chunks[i].section_name
                # enriched_chunks.chunks[j].section_name
         /\ enriched_chunks.chunks[j].total_section_chunks >= 2
         /\ i < j

\* The characters of text that are not carriage returns.
WithoutCR == SelectSeq(text, LAMBDA c : c # "\r")

RECURSIVE Concat(_)
Concat(ss) == IF ss = <<>> THEN <<>> ELSE Head(ss) \o Concat(Tail(ss))

\* chunk_text returned chunks for a positive step.
ChunkTextReturned ==
    /\ top \in {"chunk_text", "insert_document_chunks_batch"}
    /\ ~chunks.raised
    /\ chunk_size > overlap

\* The chunks are the windows of t: chunk k starts (k-1) * (chunk_size -
\* overlap) characters into t and is chunk_size long, or shorter at the end
\* of t, and never empty; there is a chunk for every such start inside t.
WindowsOf(t) ==
    LET step == chunk_size - overlap
        cs == chunks.chunks
    IN  /\ \A k \in 1..Len(cs) :
             /\ cs[k] # <<>>
             /\ Len(cs[k]) <= chunk_size
             /\ (k - 1) * step < Len(t)
             /\ cs[k] = SubSeq(t, (k - 1) * step + 1,
                               Min((k - 1) * step + chunk_size, Len(t)))
        /\ Len(cs) * step >= Len(t)
        /\ (t = <<>> => cs = <<>>)

\* C18 (as stated): the chunks are the windows of text, chunk_size long and
\* chunk_size - overlap apart, none empty, none for the empty text; with
\* overlap 0 their concatenation is text.
C18_FixedWindowsOfText ==
    ChunkTextReturned =>
        /\ WindowsOf(text)
        /\ (overlap = 0 => Concat(chunks.chunks) = text)

\* C18 (amended): the chunks are the windows of the text without its
\* carriage returns; with overlap 0 their concatenation is the text
\* without its carriage returns.
C18_FixedWindowsOfCleanedText ==
    ChunkTextReturned =>
        /\ WindowsOf(WithoutCR)
        /\ (overlap = 0 => Concat(chunks.chunks) = WithoutCR)

\* chunk_text with overlap 0 returned several chunks of a text that holds a
\* carriage return.
C18_Witness ==
    /\ top = "chunk_text"
    /\ ~chunks.raised
    /\ overlap = 0
    /\ Len(chunks.chunks) >= 2
    /\ WithoutCR # text

\* The lines of the body that are text: not empty, no heading, no marker.
BodyTextLines ==
    SelectSeq(body, LAMBDA l : /\ l # ""
                               /\ ~IsHeader(l)
                               /\ l \notin {START_MARKER, END_MARKER})

\* The text lines of the contents of the returned Sections, in order.
SectionTextLines ==
    SelectSeq(Concat([i \in 1..Len(sections) |-> sections[i].content]),
              LAMBDA l : l # "")

\* C19: the contents of the Sections that extract_sections returns hold, in
\* order, all the text of the body that is neither a heading line nor a
\* marker, and there is one Section for every heading line.
C19_SectionsComplete ==
    top = "extract_sections" =>
        /\ SectionTextLines = BodyTextLines
        /\ Len(sections) = Cardinality({i \in 1..Len(body) : IsHeader(body[i])})

\* The file begins with a delimiter line and has a second delimiter line.
HasHeaderBlock ==
    /\ file_content # <<>>
    /\ Head(file_content) = DELIMITER
    /\ \E j \in 2..Len(file_content) : file_content[j] = DELIMITER

\* The line of the closing delimiter of the header block.
ClosingLine ==
    SetMin({j \in 2..Len(file_content) : file_content[j] = DELIMITER})

\* The fields of the header block as the file gives them.
SourceFields ==
    [f \in RequiredFields |->
        FieldValue(SubSeq(file_content, 2, ClosingLine - 1), f)]

\* C20: for a file that begins with a delimited header block
\* parse_case_study does not raise; when the block gives every required
\* field as a string it returns these fields and the text after the block,
\* and otherwise it returns no metadata and the whole text.
C20_FrontmatterRoundTrip ==
    (top = "parse_case_study" /\ HasHeaderBlock) =>
        /\ ~parsed.raised
        /\ IF \A f \in RequiredFields : SourceFields[f] = "str"
           THEN /\ parsed.validated
                /\ parsed.frontmatter = SourceFields
                /\ LStrip(parsed.body) =
                      LStrip(Decode(SubSeq(file_content, ClosingLine + 1,
                                           Len(file_content))))
           ELSE /\ ~parsed.validated
                /\ parsed.frontmatter = NoMetadata
                /\ parsed.body = Decode(file_content)

\* ceil(n / BATCH_SIZE)
NumBatches(n) == (n + BATCH_SIZE - 1) \div BATCH_SIZE

\* The last requests written to the store are the batches of the n records
\* of the document, in index order, each of at most BATCH_SIZE records and
\* each record in exactly one of them.
LastRequestsAreBatches(st, n) ==
    LET L == Len(st.chunks)
        nb == NumBatches(n)
    IN  /\ L >= nb
        /\ \A k \in 1..nb :
             /\ st.chunks[L - nb + k].fid = doc.fid
             /\ st.chunks[L - nb + k].lo = (k - 1) * BATCH_SIZE
             /\ st.chunks[L - nb + k].hi - st.chunks[L - nb + k].lo + 1
                    <= BATCH_SIZE
             /\ st.chunks[L - nb + k].hi + 1 =
                    (IF k = nb THEN n ELSE k * BATCH_SIZE)

\* C23: an insert call that completes without error has sent the records
\* in ceil(N/100) requests, in index order, at most 100 records each and
\* every record in exactly one request; a call whose chunks and embeddings
\* differ in number writes nothing.
C23_BatchedInsert ==
    [][/\ (pc = "insert_batch" /\ retry_out' = "returned") =>
             LastRequestsAreBatches(store', doc.nchunks)
       /\ (pc = "chunks_call" /\ doc.nchunks # emb_n) =>
             (store' = store /\ pc' # "insert_batch")]_vars

\* An insert call of a document of more than one batch has completed.
C23_Witness ==
    /\ retry_out = "returned"
    /\ doc.nchunks > BATCH_SIZE
    /\ Len(store.chunks) >= 2

\* C24: in the local watcher the initial scan passes nothing to process_file,
\* a cycle passes every item of its poll to process_file, and after the cycle
\* every id processed in it and not reported deleted is in known_files while
\* no reported id is.
C24_KnownFilesAfterCycle ==
    mode = "local" =>
        /\ (wpc = "poll" /\ cycle = 0) => proc_calls = {}
        /\ stop_cause = "item_error" => changed_files = {}
        /\ (wpc = "deletes" /\ deleted_file_ids = {}) =>
              /\ (proc_calls \ reported) \subseteq known_files
              /\ known_files \cap reported = {}

\* C27: an item whose ingestion failed (process_file_for_rag returned False,
\* or the download or read failed) and that was not modified since is among
\* the items of the watcher's next poll.
C27_FailedItemOfferedAgain ==
    [][(wpc = "poll" /\ wpc' = "detect") =>
           \A f \in failed : FileInfo(f) \in changed_files']_vars

\* C28: after the initial scan of the local watcher every file created or
\* modified after the persisted last_check_time is still due for process_file:
\* the next poll returns it.
C28_ChangesBeforeStartProcessed ==
    [][(mode = "local" /\ wpc = "start" /\ wpc' = "poll") =>
           \A f \in FileIdsW :
               (files[f].st = "present" /\ files[f].stamp > last_check_time)
                   => f \in ChangedIds']_vars

\* C29: no poll cycle of either watcher is aborted by a KeyError: every id
\* that the deleted-ids step still has to remove is in known_files, also when
\* the id was among the changed items of the cycle.
C29_DeletedIdsAreKnown ==
    /\ stop_cause # "key_error"
    /\ (wpc = "deletes" => deleted_file_ids \subseteq known_files)

\* The deleted-ids step of a drive cycle is at an id that was reported
\* deleted and that process_file, called for it as a trashed changed item,
\* has already taken out of known_files and of the index.
C29_Witness ==
    /\ IsDrive
    /\ wpc = "deletes"
    /\ stop_cause = "none"
    /\ \E f \in proc_calls \cap reported :
          /\ f \in del_calls
          /\ f \in deleted_file_ids
          /\ f \in known_files

\* C25: after a run of process_file_for_rag_async no chunk index is held
\* twice among the chunk records that the run wrote for the file.
C25_NoChunkWrittenTwice ==
    (variant = "async" /\ pc = "done") =>
        LET bs == ChunkBatchesOf(store, doc.fid) IN
        \A k, l \in DOMAIN bs :
            (k # l /\ bs[k].run = run /\ bs[l].run = run) =>
                (bs[k].hi < bs[l].lo \/ bs[l].hi < bs[k].lo)

\* C26: when process_file_for_rag_async has returned, chunks_inserted is the
\* number of chunk records and rows_inserted the number of row records that
\* the store holds for the file.
C26_ResultCountsMatchStore ==
    (variant = "async" /\ pc = "done") =>
        /\ result.chunks_inserted = ChunkCount(store, doc.fid)
        /\ result.rows_inserted = RowCount(store, doc.fid)

\* split_section_at_paragraphs returned.
SplitReturned == top = "split_section_at_paragraphs"

\* header, '\n\n' and content fit within max_chunk_size.
SectionFits ==
    Len(split_section.header) + 2 + StrLen(split_section.content)
        <= max_chunk_size

\* C21: a section that fits within max_chunk_size is emitted as exactly one
\* chunk; any other section yields at least two chunks; every chunk is
\* made of whole paragraphs of the section and begins with its header.
C21_SectionSplitting ==
    SplitReturned =>
        /\ (SectionFits => Len(split_chunks) = 1)
        /\ (~SectionFits => Len(split_chunks) >= 2)
        /\ \A k \in 1..Len(split_chunks) :
             /\ split_chunks[k].header = split_section.header
             /\ \A q \in 1..Len(split_chunks[k].paras) :
                  \E r \in 1..Len(Paragraphs(split_section.content, <<>>)) :
                      split_chunks[k].paras[q]
                          = Paragraphs(split_section.content, <<>>)[r]

\* create_section_aware_chunks returned (it did not raise).
CreateReturned == top = "create_section_aware_chunks" /\ ~enriched_chunks.raised

\* C22: when extract_sections finds no section, the chunks are those of one
\* section named Document; for a text that is not empty
\* create_section_aware_chunks returns at least one chunk.
C22_FallbackSection ==
    top = "create_section_aware_chunks" =>
        /\ (ExtractSections(body) = <<>> /\ CreateReturned =>
               \A k \in 1..Len(enriched_chunks.chunks) :
                   enriched_chunks.chunks[k].section_name = "Document")
        /\ (StrLen(body) > 0 =>
               CreateReturned /\ Len(enriched_chunks.chunks) >= 1)

\* C30: the chunks that split_section_at_paragraphs returns hold, in
\* order, every paragraph of the content of the section.
C30_SplitLosesNoText ==
    SplitReturned =>
        Concat([k \in 1..Len(split_chunks) |-> split_chunks[k].paras])
            = Paragraphs(split_section.content, <<>>)

====
